---- MODULE Spec2Model ----
(***************************************************************************)
(* Bullet-item service of the backend: the bullet_items table with its     *)
(* schema constraints, the generic record operations, and the handlers of  *)
(* BulletItemService (create, get, update, delete, list, reorder).         *)
(*                                                                         *)
(* A row of bullet_items is a record [spec_id, content, order, is_deleted];*)
(* its id is its index in `items` (ids are allocated in insertion order,   *)
(* which stands for the fresh uuid4 of Base.__init__).  Content is a       *)
(* sequence of one-character strings, so that str.strip() is computed.     *)
(***************************************************************************)
EXTENDS Integers, Sequences, FiniteSets, TLC

VARIABLES
    items,          \* the bullet_items table: sequence of rows, index = id
    created,        \* number of rows inserted since the start of the run
    projects,       \* the projects table: sequence of rows, index = id
    specifications, \* the specifications table: sequence of rows, index = id
    cache,          \* the Redis database: key -> serialised value
    cache_up,       \* whether the Redis server answers
    calls,          \* the handler calls in flight, per caller
    rate,           \* the rate-limit counters in Redis, per client
    users,          \* table users
    email_checked,  \* whether table users carries ck_users_email_format
    tokens,         \* the refresh_token and blacklist keys in Redis
    now,            \* the clock, in seconds
    issued          \* refresh tokens handed out -> whether logged out since

vars ==
    <<items, created, projects, specifications, cache, cache_up, calls, rate,
      users, email_checked, tokens, now, issued>>

(***************************************************************************)
(* Bounds of the model.                                                    *)
(***************************************************************************)
\* rows that may be inserted during a run
MaxNew == 1
\* longest reorder payload
MaxPayload == 2
\* rows the projects table may hold
MaxProjects == 2
\* rows the specifications table may hold
MaxSpecifications == 1
\* callers of create_bullet_item that may overlap
MaxCallers == 2
\* requests counted under one rate-limit key
MaxCounted == 5
\* seconds a rate-limit window is followed
MaxAge == 8
\* rows the users table may hold
MaxUsers == 2
\* seconds the clock of the logins runs
MaxTime == 3

(***************************************************************************)
(* Program constants.                                                      *)
(***************************************************************************)
MAX_BULLET_ITEMS == 10

\* specifications that bullet items are created under
SpecIds == {1, 2}

\* an id no row ever has
NoSuchId == 0

\* order values sent by clients: below range, in range, above range
OrderInputs == {-1, 0, 2, 9, 10}

\* order values sent in reorder payloads
ReorderInputs == {0, 2, 10}

\* contents sent by clients: blank, and text with surrounding whitespace
ContentInputs == {<<" ">>, <<" ", "b">>}

\* content of the rows already stored when the run starts
SeedContent == <<"b">>

\* number of rows of specification 1 already stored when the run starts
SeedCounts == {2, MAX_BULLET_ITEMS - 1, MAX_BULLET_ITEMS}

\* statuses of a service call
OK == "ok"
ITEM001 == "ValidationError:ITEM001"
ITEM002 == "ValidationError:ITEM002"
SchemaError == "marshmallow.ValidationError"
NotFound == "ResourceNotFoundError:ITEM001"
DatabaseError == "DatabaseError:SYS001"

(***************************************************************************)
(* str.strip(): remove leading and trailing whitespace.                    *)
(***************************************************************************)
Whitespace == {" "}

RECURSIVE lstrip(_)
lstrip(s) == IF s # <<>> /\ Head(s) \in Whitespace THEN lstrip(Tail(s)) ELSE s

RECURSIVE rstrip(_)
rstrip(s) ==
    IF s # <<>> /\ s[Len(s)] \in Whitespace
    THEN rstrip(SubSeq(s, 1, Len(s) - 1))
    ELSE s

strip(s) == rstrip(lstrip(s))

(***************************************************************************)
(* Schema of table bullet_items (initial_schema.py): the constraints a     *)
(* flush of an INSERT or UPDATE is checked against.  The unique constraint *)
(* ranges over every row of the table, soft-deleted rows included.         *)
(***************************************************************************)
ck_bullet_items_order_range(row) == row.order >= 0 /\ row.order < 10

ck_bullet_items_content_not_empty(row) == Len(strip(row.content)) > 0

\* variant: the table has no unique constraint on (spec_id, order)
uq_bullet_items_spec_order_missing(rows) == TRUE

uq_bullet_items_spec_order(rows) ==
    \A i, j \in DOMAIN rows :
        (i # j /\ rows[i].spec_id = rows[j].spec_id)
            => rows[i].order # rows[j].order

\* the foreign key to specifications: the row it names is stored (a
\* soft-deleted specification is still a row of its table)
fk_bullet_items_spec_id(row) == row.spec_id \in DOMAIN specifications

\* the table with its constraints: TRUE iff `rows` is an admissible table
bullet_items(rows) ==
    /\ \A i \in DOMAIN rows :
          /\ ck_bullet_items_order_range(rows[i])
          /\ ck_bullet_items_content_not_empty(rows[i])
          /\ fk_bullet_items_spec_id(rows[i])
    /\ uq_bullet_items_spec_order(rows)

(***************************************************************************)
(* Serialisation of a row (BulletItemSchema.dump).                         *)
(***************************************************************************)
dump(rows, id) ==
    [id |-> id, spec_id |-> rows[id].spec_id,
     content |-> rows[id].content, order |-> rows[id].order]

(***************************************************************************)
(* database/operations.py                                                  *)
(***************************************************************************)
\* variant: the query has no is_deleted filter
get_record_with_deleted(rows, record_id) ==
    IF record_id \in DOMAIN rows THEN record_id ELSE NoSuchId

\* get_record: the id of the row, or NoSuchId for None
get_record(rows, record_id) ==
    IF record_id \in DOMAIN rows /\ ~rows[record_id].is_deleted
    THEN record_id
    ELSE NoSuchId

\* list_records with filters={'spec_id': spec_id}: ids of the rows, in the
\* order the table returns them (insertion order)
RECURSIVE list_records(_, _)
list_records(rows, spec_id) ==
    IF rows = <<>> THEN <<>>
    ELSE LET n == Len(rows)
             rest == list_records(SubSeq(rows, 1, n - 1), spec_id)
         IN  IF ~rows[n].is_deleted /\ rows[n].spec_id = spec_id
             THEN Append(rest, n)
             ELSE rest

\* BulletItem.__init__: the new row, content stripped
BulletItem(spec_id, content, order) ==
    [spec_id |-> spec_id, content |-> strip(content), order |-> order,
     is_deleted |-> FALSE]

\* create_record: [ok, rows]; a constraint violation at flush rolls back
create_record(rows, data) ==
    LET instance == BulletItem(data.spec_id, data.content, data.order)
        after == Append(rows, instance)
    IN  IF bullet_items(after)
        THEN [ok |-> TRUE, rows |-> after]
        ELSE [ok |-> FALSE, rows |-> rows]

\* setattr loop of update_record: data is a record with a subset of the
\* fields content, order
setattrs(row, data) ==
    [f \in DOMAIN row |-> IF f \in DOMAIN data THEN data[f] ELSE row[f]]

\* update_record: [ok, rows]; one transaction per call
update_record(rows, id, data) ==
    LET after == [rows EXCEPT ![id] = setattrs(rows[id], data)]
    IN  IF bullet_items(after)
        THEN [ok |-> TRUE, rows |-> after]
        ELSE [ok |-> FALSE, rows |-> rows]

\* variant: the flag flip is lost
soft_delete_lost(row) == row

\* Base.soft_delete: flag flip
soft_delete(row) == [row EXCEPT !.is_deleted = TRUE]

\* delete_record
delete_record(rows, id) == [rows EXCEPT ![id] = soft_delete(rows[id])]

(***************************************************************************)
(* utils/validators.py and schemas/bullet_item.py                          *)
(***************************************************************************)
MAX_CONTENT_LENGTH == 5000

\* validate_bullet_item(content, order): OK, or the code of the error raised
validate_bullet_item(content, order) ==
    IF content = <<>> THEN ITEM002
    ELSE IF Len(strip(content)) = 0 THEN ITEM002
    ELSE IF Len(strip(content)) > MAX_CONTENT_LENGTH THEN ITEM002
    ELSE IF order < 0 \/ order >= MAX_BULLET_ITEMS THEN ITEM002
    ELSE OK

\* variant: the schemas accept every order
validate_order_lenient(order) == TRUE

\* validate_order of the create and update schemas
validate_order(order) == ~(order < 0 \/ order > 9)

\* BulletItemCreateSchema.load: the error of validate_content propagates as
\* raised; a failed validate_order is collected by the schema
create_schema_load(data) ==
    IF validate_bullet_item(data.content, 0) # OK
    THEN validate_bullet_item(data.content, 0)
    ELSE IF ~validate_order(data.order) THEN SchemaError
    ELSE OK

\* BulletItemUpdateSchema.load: both fields optional
update_schema_load(data) ==
    IF "content" \in DOMAIN data /\ validate_bullet_item(data.content, 0) # OK
    THEN validate_bullet_item(data.content, 0)
    ELSE IF "order" \in DOMAIN data /\ ~validate_order(data.order)
    THEN SchemaError
    ELSE OK

(***************************************************************************)
(* services/bullet_item_service.py: each handler maps the table and its    *)
(* arguments to [rows, status, value]: the table after the call, the       *)
(* status (OK or the exception raised) and the serialised return value (a  *)
(* sequence of dumped rows).                                               *)
(***************************************************************************)
Raise(rows, status) == [rows |-> rows, status |-> status, value |-> <<>>]

\* variant: the row is stored without the count check and without the
\* table's constraints being checked
create_bullet_item_unchecked(rows, data) ==
    LET validated == create_schema_load(data)
        after == Append(rows, BulletItem(data.spec_id, data.content, data.order))
    IN  IF validated # OK THEN Raise(rows, validated)
        ELSE [rows |-> after, status |-> OK, value |-> <<dump(after, Len(after))>>]

\* variant: the count check is off by one (> 10 for >= 10)
create_bullet_item_off_by_one(rows, data) ==
    LET validated == create_schema_load(data)
        existing_items == list_records(rows, data.spec_id)
        made == create_record(rows, data)
    IN  IF validated # OK THEN Raise(rows, validated)
        ELSE IF Len(existing_items) > 10 THEN Raise(rows, ITEM001)
        ELSE IF ~made.ok THEN Raise(rows, DatabaseError)
        ELSE [rows |-> made.rows, status |-> OK,
              value |-> <<dump(made.rows, Len(made.rows))>>]

create_bullet_item(rows, data) ==
    LET validated == create_schema_load(data)
        existing_items == list_records(rows, data.spec_id)
        made == create_record(rows, data)
    IN  IF validated # OK THEN Raise(rows, validated)
        ELSE IF Len(existing_items) >= 10 THEN Raise(rows, ITEM001)
        ELSE IF ~made.ok THEN Raise(rows, DatabaseError)
        ELSE [rows |-> made.rows, status |-> OK,
              value |-> <<dump(made.rows, Len(made.rows))>>]

get_bullet_item(rows, item_id) ==
    LET bullet_item == get_record(rows, item_id)
    IN  IF bullet_item = NoSuchId THEN Raise(rows, NotFound)
        ELSE [rows |-> rows, status |-> OK, value |-> <<dump(rows, bullet_item)>>]

update_bullet_item(rows, item_id, data) ==
    LET validated == update_schema_load(data)
        bullet_item == get_record(rows, item_id)
        updated == update_record(rows, bullet_item, data)
    IN  IF validated # OK THEN Raise(rows, validated)
        ELSE IF bullet_item = NoSuchId THEN Raise(rows, NotFound)
        ELSE IF ~updated.ok THEN Raise(rows, DatabaseError)
        ELSE [rows |-> updated.rows, status |-> OK,
              value |-> <<dump(updated.rows, bullet_item)>>]

delete_bullet_item(rows, item_id) ==
    LET bullet_item == get_record(rows, item_id)
    IN  IF bullet_item = NoSuchId THEN Raise(rows, NotFound)
        ELSE [rows |-> delete_record(rows, bullet_item), status |-> OK,
              value |-> <<>>]

\* items.sort(key=lambda x: x.order): stable insertion of id into a sorted list
RECURSIVE insert_by_order(_, _, _)
insert_by_order(rows, sorted, id) ==
    IF sorted = <<>> THEN <<id>>
    ELSE IF rows[sorted[Len(sorted)]].order <= rows[id].order
    THEN Append(sorted, id)
    ELSE Append(insert_by_order(rows, SubSeq(sorted, 1, Len(sorted) - 1), id),
                sorted[Len(sorted)])

\* variant: the list is returned as queried, not sorted
sort_by_order_skipped(rows, ids) == ids

RECURSIVE sort_by_order(_, _)
sort_by_order(rows, ids) ==
    IF ids = <<>> THEN <<>>
    ELSE insert_by_order(rows,
                         sort_by_order(rows, SubSeq(ids, 1, Len(ids) - 1)),
                         ids[Len(ids)])

list_specification_items(rows, spec_id) ==
    LET sorted == sort_by_order(rows, list_records(rows, spec_id))
    IN  [rows |-> rows, status |-> OK,
         value |-> [k \in 1..Len(sorted) |-> dump(rows, sorted[k])]]

\* validation loop of reorder_items: OK, or the error of the first bad entry
RECURSIVE validate_order_updates(_, _)
validate_order_updates(existing_map, order_updates) ==
    IF order_updates = <<>> THEN OK
    ELSE LET update == Head(order_updates)
         IN  IF update.id = NoSuchId \/ update.id \notin existing_map
             THEN NotFound
             ELSE IF update.order < 0 \/ update.order > 9 THEN ITEM002
             ELSE validate_order_updates(existing_map, Tail(order_updates))

\* variant: a failed update is skipped and the loop goes on
RECURSIVE apply_order_updates_skipping(_, _)
apply_order_updates_skipping(rows, order_updates) ==
    IF order_updates = <<>> THEN [ok |-> TRUE, rows |-> rows]
    ELSE LET update == Head(order_updates)
             updated == update_record(rows, update.id, [order |-> update.order])
         IN  apply_order_updates_skipping(updated.rows, Tail(order_updates))

\* update loop of reorder_items: one update_record, hence one committed
\* transaction, per entry; the first failing one raises
RECURSIVE apply_order_updates(_, _)
apply_order_updates(rows, order_updates) ==
    IF order_updates = <<>> THEN [ok |-> TRUE, rows |-> rows]
    ELSE LET update == Head(order_updates)
             updated == update_record(rows, update.id, [order |-> update.order])
         IN  IF ~updated.ok THEN [ok |-> FALSE, rows |-> rows]
             ELSE apply_order_updates(updated.rows, Tail(order_updates))

\* variant: each entry is validated right before it is written
RECURSIVE reorder_entries_interleaved(_, _, _)
reorder_entries_interleaved(rows, existing_map, order_updates) ==
    IF order_updates = <<>> THEN [status |-> OK, rows |-> rows]
    ELSE LET update == Head(order_updates)
             validated == validate_order_updates(existing_map, <<update>>)
             updated == update_record(rows, update.id, [order |-> update.order])
         IN  IF validated # OK THEN [status |-> validated, rows |-> rows]
             ELSE IF ~updated.ok THEN [status |-> DatabaseError, rows |-> rows]
             ELSE reorder_entries_interleaved(updated.rows, existing_map,
                                              Tail(order_updates))

reorder_items_interleaved(rows, spec_id, order_updates) ==
    LET existing_items == list_records(rows, spec_id)
        existing_map == {existing_items[k] : k \in 1..Len(existing_items)}
        done == reorder_entries_interleaved(rows, existing_map, order_updates)
    IN  IF done.status # OK THEN Raise(done.rows, done.status)
        ELSE [rows |-> done.rows, status |-> OK,
              value |-> [k \in 1..Len(order_updates) |->
                            dump(done.rows, order_updates[k].id)]]

\* variant: the format check refuses an empty payload (`not order_updates`)
reorder_items_refusing_empty(rows, spec_id, order_updates) ==
    LET existing_items == list_records(rows, spec_id)
        existing_map == {existing_items[k] : k \in 1..Len(existing_items)}
        validated == validate_order_updates(existing_map, order_updates)
        applied == apply_order_updates(rows, order_updates)
    IN  IF order_updates = <<>> THEN Raise(rows, ITEM002)
        ELSE IF validated # OK THEN Raise(rows, validated)
        ELSE IF ~applied.ok THEN Raise(applied.rows, DatabaseError)
        ELSE [rows |-> applied.rows, status |-> OK,
              value |-> [k \in 1..Len(order_updates) |->
                            dump(applied.rows, order_updates[k].id)]]

reorder_items(rows, spec_id, order_updates) ==
    LET existing_items == list_records(rows, spec_id)
        existing_map == {existing_items[k] : k \in 1..Len(existing_items)}
        validated == validate_order_updates(existing_map, order_updates)
        applied == apply_order_updates(rows, order_updates)
    IN  IF validated # OK THEN Raise(rows, validated)
        ELSE IF ~applied.ok THEN Raise(applied.rows, DatabaseError)
        ELSE [rows |-> applied.rows, status |-> OK,
              value |-> [k \in 1..Len(order_updates) |->
                            dump(applied.rows, order_updates[k].id)]]

(***************************************************************************)
(* cache/keys.py and cache/redis.py: the keys, the JSON encoding of the    *)
(* values and the three commands the services use.  A command on a server  *)
(* that does not answer raises DatabaseError (ok = FALSE).                 *)
(***************************************************************************)
\* Python's None
None == [kind |-> "None"]

\* str(uuid)
Str(uuid) == <<"str", uuid>>

json_dumps(value) == <<"json", value>>

json_loads(text) == text[2]

make_project_key(id) == <<"project", id>>

make_spec_key(id) == <<"spec", id>>

\* `if value:` on what json.loads returned (every dict stored is non-empty)
Truthy(value) == value # None

\* the Redis database after FLUSHDB
NoKeys == [key \in {} |-> json_dumps(None)]

\* RedisCache.get
redis_get(w, key) ==
    IF ~w.cache_up THEN [ok |-> FALSE, value |-> None]
    ELSE [ok |-> TRUE,
          value |-> IF key \in DOMAIN w.cache
                    THEN json_loads(w.cache[key]) ELSE None]

\* RedisCache.set
redis_set(w, key, value) ==
    IF ~w.cache_up THEN [ok |-> FALSE, w |-> w]
    ELSE [ok |-> TRUE,
          w |-> [w EXCEPT !.cache =
                    [k \in DOMAIN w.cache \cup {key} |->
                        IF k = key THEN json_dumps(value) ELSE w.cache[k]]]]

\* RedisCache.clear
redis_clear(w) ==
    IF ~w.cache_up THEN [ok |-> FALSE, w |-> w]
    ELSE [ok |-> TRUE, w |-> [w EXCEPT !.cache = NoKeys]]

(***************************************************************************)
(* Projects and specifications: rows, serialisation, table constraints.    *)
(* A world w is [projects, specifications, cache, cache_up]; each handler  *)
(* maps it to [w, status, value].  Timestamps are left out of the rows.    *)
(***************************************************************************)
PRJ001 == "ValidationError:PRJ001"
ProjectNotFound == "ResourceNotFoundError:PRJ001"
PRJ002 == "AuthorizationError:PRJ002"
SpecNotFound == "ResourceNotFoundError:SPEC001"
KeyError == "KeyError"

Fail(w, status) == [w |-> w, status |-> status, value |-> None]

\* Project.__init__
Project(title, user_id) ==
    [title |-> strip(title), user_id |-> user_id, is_deleted |-> FALSE]

\* ProjectSchema.dump
project_dump(rows, id) ==
    [id |-> Str(id), title |-> rows[id].title,
     user_id |-> Str(rows[id].user_id), is_deleted |-> rows[id].is_deleted]

\* validate_project_title
validate_project_title(title) == title # <<>> /\ Len(strip(title)) > 0

\* Specification.__init__
Specification(project_id, content) ==
    [project_id |-> project_id, content |-> strip(content),
     is_deleted |-> FALSE]

\* SpecificationSchema.dump
specification_dump(rows, id) ==
    [project_id |-> Str(rows[id].project_id), content |-> rows[id].content]

\* validate_content of the specification schemas
validate_specification_content(content) ==
    content # <<>> /\ Len(strip(content)) > 0

\* table specifications: foreign key to projects, content not blank
specifications_table(w, rows) ==
    \A i \in DOMAIN rows :
        /\ rows[i].project_id \in DOMAIN w.projects
        /\ Len(strip(rows[i].content)) > 0

\* list_records with filters={'project_id': project_id}
RECURSIVE list_project_records(_, _)
list_project_records(rows, project_id) ==
    IF rows = <<>> THEN <<>>
    ELSE LET n == Len(rows)
             rest == list_project_records(SubSeq(rows, 1, n - 1), project_id)
         IN  IF ~rows[n].is_deleted /\ rows[n].project_id = project_id
             THEN Append(rest, n)
             ELSE rest

(***************************************************************************)
(* services/project_service.py                                             *)
(***************************************************************************)
create_project(w, user_id, project_data) ==
    LET rows == Append(w.projects, Project(project_data.title, user_id))
        id == Len(rows)
        stored == [w EXCEPT !.projects = rows]
        project_dict == project_dump(rows, id)
        cached == redis_set(stored, make_project_key(id), project_dict)
    IN  IF ~validate_project_title(project_data.title) THEN Fail(w, PRJ001)
        ELSE IF ~cached.ok THEN Fail(stored, DatabaseError)
        ELSE [w |-> cached.w, status |-> OK, value |-> project_dict]

get_project(w, project_id, user_id) ==
    LET hit == redis_get(w, make_project_key(project_id))
        project == get_record(w.projects, project_id)
        project_dict == project_dump(w.projects, project)
        cached == redis_set(w, make_project_key(project_id), project_dict)
    IN  IF ~hit.ok THEN Fail(w, DatabaseError)
        ELSE IF Truthy(hit.value)
        THEN IF "user_id" \notin DOMAIN hit.value THEN Fail(w, KeyError)
             ELSE IF hit.value.user_id # Str(user_id) THEN Fail(w, PRJ002)
             ELSE [w |-> w, status |-> OK, value |-> hit.value]
        ELSE IF project = NoSuchId THEN Fail(w, ProjectNotFound)
        ELSE IF w.projects[project].user_id # user_id THEN Fail(w, PRJ002)
        ELSE IF ~cached.ok THEN Fail(w, DatabaseError)
        ELSE [w |-> cached.w, status |-> OK, value |-> project_dict]

update_project(w, project_id, user_id, project_data) ==
    LET project == get_record(w.projects, project_id)
        rows == [w.projects EXCEPT ![project] =
                    setattrs(w.projects[project], project_data)]
        stored == [w EXCEPT !.projects = rows]
        project_dict == project_dump(rows, project)
        cached == redis_set(stored, make_project_key(project_id), project_dict)
    IN  IF project = NoSuchId THEN Fail(w, ProjectNotFound)
        ELSE IF w.projects[project].user_id # user_id THEN Fail(w, PRJ002)
        ELSE IF ~validate_project_title(project_data.title)
        THEN Fail(w, PRJ001)
        ELSE IF ~cached.ok THEN Fail(stored, DatabaseError)
        ELSE [w |-> cached.w, status |-> OK, value |-> project_dict]

delete_project(w, project_id, user_id) ==
    LET project == get_record(w.projects, project_id)
        stored == [w EXCEPT !.projects = delete_record(w.projects, project)]
        cached == redis_set(stored, make_project_key(project_id), None)
    IN  IF project = NoSuchId THEN Fail(w, ProjectNotFound)
        ELSE IF w.projects[project].user_id # user_id THEN Fail(w, PRJ002)
        ELSE IF ~cached.ok THEN Fail(stored, DatabaseError)
        ELSE [w |-> cached.w, status |-> OK, value |-> None]

(***************************************************************************)
(* services/specification_service.py: every error but                      *)
(* ResourceNotFoundError leaves the handler as DatabaseError (the schema's *)
(* ValidationError is not the class the handler catches).                  *)
(***************************************************************************)
create_specification(w, project_id, spec_data) ==
    LET rows == Append(w.specifications,
                       Specification(project_id, spec_data.content))
        id == Len(rows)
        stored == [w EXCEPT !.specifications = rows]
        spec_dict == specification_dump(rows, id)
        cached == redis_set(stored, make_spec_key(id), spec_dict)
    IN  IF ~validate_specification_content(spec_data.content)
        THEN Fail(w, DatabaseError)
        ELSE IF ~specifications_table(w, rows) THEN Fail(w, DatabaseError)
        ELSE IF ~cached.ok THEN Fail(stored, DatabaseError)
        ELSE [w |-> cached.w, status |-> OK, value |-> spec_dict]

get_specification(w, spec_id) ==
    LET hit == redis_get(w, make_spec_key(spec_id))
        specification == get_record(w.specifications, spec_id)
        spec_dict == specification_dump(w.specifications, specification)
        cached == redis_set(w, make_spec_key(spec_id), spec_dict)
    IN  IF ~hit.ok THEN Fail(w, DatabaseError)
        ELSE IF Truthy(hit.value)
        THEN [w |-> w, status |-> OK, value |-> hit.value]
        ELSE IF specification = NoSuchId THEN Fail(w, SpecNotFound)
        ELSE IF ~cached.ok THEN Fail(w, DatabaseError)
        ELSE [w |-> cached.w, status |-> OK, value |-> spec_dict]

update_specification(w, spec_id, spec_data) ==
    LET specification == get_record(w.specifications, spec_id)
        rows == [w.specifications EXCEPT ![specification] =
                    setattrs(w.specifications[specification], spec_data)]
        stored == [w EXCEPT !.specifications = rows]
        spec_dict == specification_dump(rows, specification)
        cached == redis_set(stored, make_spec_key(spec_id), spec_dict)
    IN  IF specification = NoSuchId THEN Fail(w, SpecNotFound)
        ELSE IF ~validate_specification_content(spec_data.content)
        THEN Fail(w, DatabaseError)
        ELSE IF ~cached.ok THEN Fail(stored, DatabaseError)
        ELSE [w |-> cached.w, status |-> OK, value |-> spec_dict]

delete_specification(w, spec_id) ==
    LET specification == get_record(w.specifications, spec_id)
        stored == [w EXCEPT !.specifications =
                      delete_record(w.specifications, specification)]
        cleared == redis_clear(stored)
    IN  IF specification = NoSuchId THEN Fail(w, SpecNotFound)
        ELSE IF ~cleared.ok THEN Fail(stored, DatabaseError)
        ELSE [w |-> cleared.w, status |-> OK, value |-> None]

list_project_specifications(w, project_id) ==
    LET listed == list_project_records(w.specifications, project_id)
        specs_dict == [k \in 1..Len(listed) |->
                          specification_dump(w.specifications, listed[k])]
        cached == redis_set(w, make_project_key(project_id),
                            [specifications |-> specs_dict])
    IN  IF ~cached.ok THEN Fail(w, DatabaseError)
        ELSE [w |-> cached.w, status |-> OK, value |-> specs_dict]

(***************************************************************************)
(* middleware/rate_limiter.py over RedisCache.increment.  A counter is     *)
(* [count, ttl, age]: the key's value, the seconds until Redis deletes the *)
(* key (0: no key) and the seconds since the request that created the key. *)
(***************************************************************************)
\* window and max_requests the RateLimiter is constructed with
RateWindow == 3

RateLimit == 2

\* clients (remote addresses) that send requests to one endpoint
Clients == {1, 2}

NoCounter == [count |-> 0, ttl |-> 0, age |-> 0]

\* INCR: an absent key counts from 0 and is created without expiry
incr(counter) == [counter EXCEPT !.count = counter.count + 1]

\* EXPIRE key ttl
expire(counter, ttl) == [counter EXCEPT !.ttl = ttl]

\* RedisCache.increment: the pipeline INCR, then EXPIRE whenever a ttl is given
increment(counter, ttl) ==
    IF ttl # 0 THEN expire(incr(counter), ttl) ELSE incr(counter)

\* variant: the request that reaches the limit is refused already
check_rate_limit_strict(counter) ==
    LET counted == increment(counter, RateWindow)
    IN  [counter |-> counted, allowed |-> counted.count < RateLimit]

\* RateLimiter.check_rate_limit: the counter afterwards and the answer
check_rate_limit(counter) ==
    LET counted == increment(counter, RateWindow)
    IN  [counter |-> counted, allowed |-> counted.count <= RateLimit]

\* one second passes for a key: Redis deletes it when its expiry is reached
second_passes(counter) ==
    IF counter.ttl = 0 THEN counter
    ELSE IF counter.ttl = 1 THEN NoCounter
    ELSE [counter EXCEPT !.ttl = counter.ttl - 1, !.age = counter.age + 1]

(***************************************************************************)
(* services/auth_service.py, models/user.py and utils/security.py.  The    *)
(* auth state is [users, tokens, now, email_checked].  A token is its      *)
(* payload (HS256 is deterministic: equal payloads give equal tokens); a   *)
(* Redis key holds [value, ttl], ttl being the seconds until it is deleted.*)
(***************************************************************************)
\* JWT_REFRESH_TOKEN_EXPIRES and JWT_ACCESS_TOKEN_EXPIRES, in model seconds
RefreshLifetime == 2

AccessLifetime == 1

\* ttl=86400 of the refresh_token key: the refresh token's own lifetime
RefreshKeyTtl == 2

\* RedisCache's default_ttl, used when a ttl of 0 is passed
DefaultTtl == 1

\* raising a name the module never imported
NameError == "NameError"

AUTH001 == "AuthenticationError:AUTH001"

\* lower-case, stripped e-mail addresses Google vouches for
Emails == {<<"u", "@", "x">>, <<"v", "@", "x">>}

\* initialisation vectors os.urandom(16) may return
IVs == {"i", "j"}

\* Google ID tokens: verified for an e-mail address, or refused
GoogleInputs == [verified : BOOLEAN, email : Emails]

\* no refresh token handed out yet
NoTokens == [token \in {} |-> FALSE]

\* AES-CBC and base64, character by character: base64 has no "@"
Cipher(c) ==
    CASE c = "u" -> "A" [] c = "v" -> "B" [] c = "@" -> "C" [] c = "x" -> "D"

Plain(c) ==
    CASE c = "A" -> "u" [] c = "B" -> "v" [] c = "C" -> "@" [] c = "D" -> "x"

\* base64(iv + ciphertext)
encrypt_sensitive_data(data, iv) ==
    <<iv>> \o [k \in 1..Len(data) |-> Cipher(data[k])]

decrypt_sensitive_data(encrypted_data) ==
    [k \in 1..(Len(encrypted_data) - 1) |-> Plain(encrypted_data[k + 1])]

\* User.__init__
User(email, iv) ==
    [email |-> encrypt_sensitive_data(email, iv), is_deleted |-> FALSE]

uq_users_email(rows) ==
    \A i, j \in DOMAIN rows : i # j => rows[i].email # rows[j].email

\* email ~* '^[A-Za-z0-9._%+-]+@[A-Za-z0-9.-]+\.[A-Za-z]{2,}$': as far as
\* the model's strings go, the column holds an "@"
ck_users_email_format(row) ==
    \E k \in DOMAIN row.email : row.email[k] = "@"

\* table users
users_table(rows, checked) ==
    /\ uq_users_email(rows)
    /\ checked => \A i \in DOMAIN rows : ck_users_email_format(rows[i])

\* session.query(User).filter(User.email == email, is_deleted false).first()
query_user_by_email(rows, email) ==
    LET found == {id \in DOMAIN rows :
                     rows[id].email = email /\ ~rows[id].is_deleted}
    IN  IF found = {} THEN NoSuchId
        ELSE CHOOSE id \in found : \A other \in found : id <= other

\* variant: the query compares the decrypted column
query_user_by_plain_email(rows, email) ==
    LET found == {id \in DOMAIN rows :
                     /\ decrypt_sensitive_data(rows[id].email) = email
                     /\ ~rows[id].is_deleted}
    IN  IF found = {} THEN NoSuchId
        ELSE CHOOSE id \in found : \A other \in found : id <= other

generate_jwt_token(type, user_id, at) ==
    [type |-> type, user_id |-> user_id, iat |-> at,
     exp |-> at + (IF type = "refresh" THEN RefreshLifetime
                   ELSE AccessLifetime)]

\* jwt.decode of a token this service signed: it has not expired
validate_jwt_token(token, at) == token.exp > at

\* RedisCache.set: SET key value EX (ttl or default_ttl)
redis_setex(keys, key, value, ttl) ==
    [k \in DOMAIN keys \cup {key} |->
        IF k = key
        THEN [value |-> value, ttl |-> IF ttl # 0 THEN ttl ELSE DefaultTtl]
        ELSE keys[k]]

\* RedisCache.delete
redis_delete(keys, key) == [k \in DOMAIN keys \ {key} |-> keys[k]]

refresh_token_key(token) == <<"refresh_token", token>>

blacklist_key(token) == <<"blacklist", token>>

\* `raise AuthenticationError(...)` in auth_service.py, where the name is
\* not imported: the handlers' `except Exception` raises NameError
AuthFail(a) == [a |-> a, status |-> NameError, value |-> None]

authenticate_google_token(a, google_token, iv) ==
    LET email == google_token.email
        found == query_user_by_email(a.users, email)
        rows == IF found = NoSuchId THEN Append(a.users, User(email, iv))
                ELSE a.users
        user == IF found = NoSuchId THEN Len(rows) ELSE found
        refresh == generate_jwt_token("refresh", Str(user), a.now)
        access == generate_jwt_token("access", Str(user), a.now)
    IN  IF ~google_token.verified THEN AuthFail(a)
        ELSE IF ~users_table(rows, a.email_checked) THEN AuthFail(a)
        ELSE [a |-> [a EXCEPT
                        !.users = rows,
                        !.tokens = redis_setex(a.tokens,
                                               refresh_token_key(refresh),
                                               [user_id |-> Str(user)],
                                               RefreshKeyTtl)],
              status |-> OK,
              value |-> [access_token |-> access, refresh_token |-> refresh,
                         user |-> user]]

refresh_token(a, token) ==
    IF ~validate_jwt_token(token, a.now) THEN AuthFail(a)
    ELSE IF token.type # "refresh" THEN AuthFail(a)
    ELSE IF blacklist_key(token) \in DOMAIN a.tokens THEN AuthFail(a)
    ELSE IF refresh_token_key(token) \notin DOMAIN a.tokens THEN AuthFail(a)
    ELSE [a |-> a, status |-> OK,
          value |-> [access_token |->
              generate_jwt_token(
                  "access",
                  a.tokens[refresh_token_key(token)].value.user_id,
                  a.now)]]

logout(a, token) ==
    IF ~validate_jwt_token(token, a.now) THEN AuthFail(a)
    ELSE IF token.type # "refresh" THEN AuthFail(a)
    ELSE [a |-> [a EXCEPT !.tokens =
                    redis_delete(
                        redis_setex(a.tokens, blacklist_key(token),
                                    [invalidated_at |-> a.now],
                                    token.exp - a.now),
                        refresh_token_key(token))],
          status |-> OK, value |-> TRUE]

\* one second passes for the keys: Redis deletes those whose ttl runs out
keys_after_a_second(keys) ==
    [k \in {key \in DOMAIN keys : keys[key].ttl > 1} |->
        [keys[k] EXCEPT !.ttl = keys[k].ttl - 1]]

(***************************************************************************)
(* api/v1/bullet_items.py and api/v1/specifications.py: the routes, called *)
(* by the user require_auth has authenticated (g.user)                     *)
(***************************************************************************)
api_get_specification(w, user_id, spec_id) == get_specification(w, spec_id)

api_get_bullet_item(rows, user_id, item_id) == get_bullet_item(rows, item_id)

api_update_bullet_item(rows, user_id, item_id, data) ==
    update_bullet_item(rows, item_id, data)

api_delete_bullet_item(rows, user_id, item_id) ==
    delete_bullet_item(rows, item_id)

(***************************************************************************)
(* Worlds: the one the variables hold, the one after construction, and the *)
(* one the bullet-item runs start from (project 1 of user 1 with           *)
(* specifications 1 and 2, made by the handlers).                          *)
(***************************************************************************)
World ==
    [projects |-> projects, specifications |-> specifications,
     cache |-> cache, cache_up |-> cache_up]

EmptyWorld ==
    [projects |-> <<>>, specifications |-> <<>>, cache |-> NoKeys,
     cache_up |-> TRUE]

SeedProject == create_project(EmptyWorld, 1, [title |-> <<"a">>]).w

SeedTree == create_specification(SeedProject, 1, [content |-> <<"s">>]).w

SeedWorld ==
    create_specification(
        create_specification(SeedProject, 1, [content |-> <<"b">>]).w,
        1, [content |-> <<"b">>]).w

(***************************************************************************)
(* Requests.                                                               *)
(***************************************************************************)
\* ids a request may name: an id that names no row, and the first two rows
TargetIds == {NoSuchId, 1, 2}

CreateInputs ==
    [spec_id : SpecIds, content : ContentInputs, order : OrderInputs]

UpdateInputs ==
    [content : ContentInputs] \cup [order : OrderInputs]
        \cup [content : ContentInputs, order : OrderInputs]

OrderUpdates(ids) ==
    UNION {[1..n -> [id : ids, order : ReorderInputs]] : n \in 0..MaxPayload}

\* users that send requests
Users == {1, 2}

\* project titles sent by clients: empty, and two titles
TitleInputs == {<<>>, <<"a">>, <<"b">>}

\* specification contents sent by clients: blank, and text
SpecContentInputs == {<<" ">>, <<"s">>}

(***************************************************************************)
(* The store at the start of a run: what n earlier calls of                *)
(* create_bullet_item on specification 1, with orders 0..n-1, have stored. *)
(***************************************************************************)
RECURSIVE SeedStore(_)
SeedStore(n) ==
    IF n = 0 THEN <<>>
    ELSE CHOOSE rows \in
             {create_bullet_item(earlier,
                                 [spec_id |-> 1, content |-> SeedContent,
                                  order |-> n - 1]).rows :
                 earlier \in {SeedStore(n - 1)}} : TRUE

worldVars == <<projects, specifications, cache, cache_up>>

itemVars == <<items, created>>

raceVars == <<calls>>

rateVars == <<rate>>

authVars == <<users, email_checked, tokens, now, issued>>

\* no handler call in flight
NoCalls == [caller \in 1..MaxCallers |-> [pc |-> "idle"]]

\* no rate-limit key in Redis
NoCounters == [client \in Clients |-> NoCounter]

Init ==
    /\ projects = SeedWorld.projects
    /\ specifications = SeedWorld.specifications
    /\ cache = SeedWorld.cache
    /\ cache_up = TRUE
    /\ items \in {SeedStore(n) : n \in SeedCounts}
    /\ created = 0
    /\ calls = NoCalls
    /\ rate = NoCounters
    /\ users = <<>>
    /\ email_checked = TRUE
    /\ tokens = NoKeys
    /\ now = 0
    /\ issued = NoTokens

\* Each action is one call of a handler: the table becomes the handler's
\* rows; the status and the value go back to the caller.
CreateBulletItem ==
    \E data \in CreateInputs :
        LET out == create_bullet_item(items, data)
        IN  /\ Len(out.rows) - Len(items) <= MaxNew - created
            /\ items' = out.rows
            /\ created' = created + (Len(out.rows) - Len(items))
            /\ UNCHANGED <<worldVars, raceVars, rateVars, authVars>>

GetBulletItem ==
    \E id \in TargetIds :
        /\ items' = get_bullet_item(items, id).rows
        /\ UNCHANGED created
        /\ UNCHANGED <<worldVars, raceVars, rateVars, authVars>>

UpdateBulletItem ==
    \E id \in TargetIds, data \in UpdateInputs :
        /\ items' = update_bullet_item(items, id, data).rows
        /\ UNCHANGED created
        /\ UNCHANGED <<worldVars, raceVars, rateVars, authVars>>

DeleteBulletItem ==
    \E id \in TargetIds :
        /\ items' = delete_bullet_item(items, id).rows
        /\ UNCHANGED created
        /\ UNCHANGED <<worldVars, raceVars, rateVars, authVars>>

ListSpecificationItems ==
    \E spec_id \in SpecIds :
        /\ items' = list_specification_items(items, spec_id).rows
        /\ UNCHANGED created
        /\ UNCHANGED <<worldVars, raceVars, rateVars, authVars>>

ReorderItems ==
    \E spec_id \in SpecIds, order_updates \in OrderUpdates(TargetIds) :
        /\ items' = reorder_items(items, spec_id, order_updates).rows
        /\ UNCHANGED created
        /\ UNCHANGED <<worldVars, raceVars, rateVars, authVars>>

Next ==
    \/ CreateBulletItem
    \/ GetBulletItem
    \/ UpdateBulletItem
    \/ DeleteBulletItem
    \/ ListSpecificationItems
    \/ ReorderItems

Spec == Init /\ [][Next]_vars

(***************************************************************************)
(* Calls of the project and specification services, and what the Redis     *)
(* server does on its own: a key's TTL runs out, the server stops          *)
(* answering, the server answers again.                                    *)
(***************************************************************************)
\* ids a project request may name
ProjectTargets == DOMAIN projects \cup {NoSuchId}

\* ids a specification request may name
SpecificationTargets == DOMAIN specifications \cup {NoSuchId}

CreateProject ==
    \E user_id \in Users, title \in TitleInputs :
        LET out == create_project(World, user_id, [title |-> title])
        IN  /\ Len(out.w.projects) <= MaxProjects
            /\ projects' = out.w.projects
            /\ specifications' = out.w.specifications
            /\ cache' = out.w.cache
            /\ cache_up' = out.w.cache_up
            /\ UNCHANGED <<itemVars, raceVars, rateVars, authVars>>

GetProject ==
    \E project_id \in ProjectTargets, user_id \in Users :
        LET out == get_project(World, project_id, user_id)
        IN  /\ projects' = out.w.projects
            /\ specifications' = out.w.specifications
            /\ cache' = out.w.cache
            /\ cache_up' = out.w.cache_up
            /\ UNCHANGED <<itemVars, raceVars, rateVars, authVars>>

UpdateProject ==
    \E project_id \in ProjectTargets, user_id \in Users, title \in TitleInputs :
        LET out == update_project(World, project_id, user_id, [title |-> title])
        IN  /\ projects' = out.w.projects
            /\ specifications' = out.w.specifications
            /\ cache' = out.w.cache
            /\ cache_up' = out.w.cache_up
            /\ UNCHANGED <<itemVars, raceVars, rateVars, authVars>>

DeleteProject ==
    \E project_id \in ProjectTargets, user_id \in Users :
        LET out == delete_project(World, project_id, user_id)
        IN  /\ projects' = out.w.projects
            /\ specifications' = out.w.specifications
            /\ cache' = out.w.cache
            /\ cache_up' = out.w.cache_up
            /\ UNCHANGED <<itemVars, raceVars, rateVars, authVars>>

CreateSpecification ==
    \E project_id \in ProjectTargets, content \in SpecContentInputs :
        LET out == create_specification(World, project_id, [content |-> content])
        IN  /\ Len(out.w.specifications) <= MaxSpecifications
            /\ projects' = out.w.projects
            /\ specifications' = out.w.specifications
            /\ cache' = out.w.cache
            /\ cache_up' = out.w.cache_up
            /\ UNCHANGED <<itemVars, raceVars, rateVars, authVars>>

GetSpecification ==
    \E spec_id \in SpecificationTargets :
        LET out == get_specification(World, spec_id)
        IN  /\ projects' = out.w.projects
            /\ specifications' = out.w.specifications
            /\ cache' = out.w.cache
            /\ cache_up' = out.w.cache_up
            /\ UNCHANGED <<itemVars, raceVars, rateVars, authVars>>

UpdateSpecification ==
    \E spec_id \in SpecificationTargets, content \in SpecContentInputs :
        LET out == update_specification(World, spec_id, [content |-> content])
        IN  /\ projects' = out.w.projects
            /\ specifications' = out.w.specifications
            /\ cache' = out.w.cache
            /\ cache_up' = out.w.cache_up
            /\ UNCHANGED <<itemVars, raceVars, rateVars, authVars>>

DeleteSpecification ==
    \E spec_id \in SpecificationTargets :
        LET out == delete_specification(World, spec_id)
        IN  /\ projects' = out.w.projects
            /\ specifications' = out.w.specifications
            /\ cache' = out.w.cache
            /\ cache_up' = out.w.cache_up
            /\ UNCHANGED <<itemVars, raceVars, rateVars, authVars>>

ListProjectSpecifications ==
    \E project_id \in ProjectTargets :
        LET out == list_project_specifications(World, project_id)
        IN  /\ projects' = out.w.projects
            /\ specifications' = out.w.specifications
            /\ cache' = out.w.cache
            /\ cache_up' = out.w.cache_up
            /\ UNCHANGED <<itemVars, raceVars, rateVars, authVars>>

CacheExpires ==
    \E key \in DOMAIN cache :
        /\ cache' = [k \in DOMAIN cache \ {key} |-> cache[k]]
        /\ UNCHANGED <<projects, specifications, cache_up>>
        /\ UNCHANGED <<itemVars, raceVars, rateVars, authVars>>

CacheStops ==
    /\ cache_up
    /\ cache_up' = FALSE
    /\ UNCHANGED <<projects, specifications, cache>>
    /\ UNCHANGED <<itemVars, raceVars, rateVars, authVars>>

CacheAnswersAgain ==
    /\ ~cache_up
    /\ cache_up' = TRUE
    /\ UNCHANGED <<projects, specifications, cache>>
    /\ UNCHANGED <<itemVars, raceVars, rateVars, authVars>>

(***************************************************************************)
(* SpecTree: a specification and its bullet items.  The run starts from    *)
(* project 1 of user 1 with specification 1 and two bullet items, made by  *)
(* the handlers.                                                           *)
(***************************************************************************)
InitTree ==
    /\ projects = SeedTree.projects
    /\ specifications = SeedTree.specifications
    /\ cache = SeedTree.cache
    /\ cache_up = TRUE
    /\ items = SeedStore(2)
    /\ created = 0
    /\ calls = NoCalls
    /\ rate = NoCounters
    /\ users = <<>>
    /\ email_checked = TRUE
    /\ tokens = NoKeys
    /\ now = 0
    /\ issued = NoTokens

NextTree ==
    \/ GetSpecification
    \/ DeleteSpecification
    \/ CreateBulletItem
    \/ UpdateBulletItem
    \/ DeleteBulletItem
    \/ ListSpecificationItems

SpecTree == InitTree /\ [][NextTree]_vars

(***************************************************************************)
(* SpecCache: the project and specification services over the store and    *)
(* the Redis cache, from the empty store and the empty cache.              *)
(***************************************************************************)
InitCache ==
    /\ projects = EmptyWorld.projects
    /\ specifications = EmptyWorld.specifications
    /\ cache = EmptyWorld.cache
    /\ cache_up = EmptyWorld.cache_up
    /\ items = <<>>
    /\ created = 0
    /\ calls = NoCalls
    /\ rate = NoCounters
    /\ users = <<>>
    /\ email_checked = TRUE
    /\ tokens = NoKeys
    /\ now = 0
    /\ issued = NoTokens

NextCache ==
    \/ CreateProject
    \/ GetProject
    \/ UpdateProject
    \/ DeleteProject
    \/ CreateSpecification
    \/ GetSpecification
    \/ UpdateSpecification
    \/ DeleteSpecification
    \/ ListProjectSpecifications
    \/ CacheExpires
    \/ CacheStops
    \/ CacheAnswersAgain

SpecCache == InitCache /\ [][NextCache]_vars

(***************************************************************************)
(* SpecRace: create_bullet_item calls that overlap.  A call is two steps:  *)
(* the schema load and the count query (list_records, its own session),    *)
(* then the capacity check and create_record (its own session: INSERT and  *)
(* COMMIT, checked against the committed rows).  The run starts from       *)
(* specification 1 holding 8, 9 or 10 items.                               *)
(***************************************************************************)
\* counts of rows of specification 1 stored when the calls start
RaceCounts == {MAX_BULLET_ITEMS - 2, MAX_BULLET_ITEMS - 1, MAX_BULLET_ITEMS}

\* requests of the overlapping calls: the two orders free in the smallest
\* store, and one the schema refuses
RaceInputs ==
    [spec_id : {1}, content : {SeedContent},
     order : {MAX_BULLET_ITEMS - 2, MAX_BULLET_ITEMS - 1, MAX_BULLET_ITEMS}]

InitRace ==
    /\ projects = SeedWorld.projects
    /\ specifications = SeedWorld.specifications
    /\ cache = SeedWorld.cache
    /\ cache_up = TRUE
    /\ items \in {SeedStore(n) : n \in RaceCounts}
    /\ created = 0
    /\ calls = NoCalls
    /\ rate = NoCounters
    /\ users = <<>>
    /\ email_checked = TRUE
    /\ tokens = NoKeys
    /\ now = 0
    /\ issued = NoTokens

\* validated_data = create_schema.load(data); existing_items = list_records(...)
CreateCounts ==
    \E caller \in DOMAIN calls, data \in RaceInputs :
        /\ calls[caller].pc = "idle"
        /\ calls' = [calls EXCEPT ![caller] =
              IF create_schema_load(data) # OK
              THEN [pc |-> "done", data |-> data,
                    status |-> create_schema_load(data)]
              ELSE [pc |-> "counted", data |-> data,
                    count |-> Len(list_records(items, data.spec_id))]]
        /\ UNCHANGED <<items, created>>
        /\ UNCHANGED <<worldVars, rateVars, authVars>>

\* if len(existing_items) >= 10: raise; create_record(...)
CreateStores ==
    \E caller \in DOMAIN calls :
        /\ calls[caller].pc = "counted"
        /\ LET call == calls[caller]
               made == create_record(items, call.data)
           IN  IF call.count >= 10
               THEN /\ calls' = [calls EXCEPT ![caller] =
                          [pc |-> "done", data |-> call.data,
                           count |-> call.count, status |-> ITEM001]]
                    /\ UNCHANGED <<items, created>>
               ELSE IF ~made.ok
               THEN /\ calls' = [calls EXCEPT ![caller] =
                          [pc |-> "done", data |-> call.data,
                           count |-> call.count, status |-> DatabaseError]]
                    /\ UNCHANGED <<items, created>>
               ELSE /\ calls' = [calls EXCEPT ![caller] =
                          [pc |-> "done", data |-> call.data,
                           count |-> call.count, status |-> OK]]
                    /\ items' = made.rows
                    /\ created' = created + 1
        /\ UNCHANGED <<worldVars, rateVars, authVars>>

NextRace ==
    \/ CreateCounts
    \/ CreateStores

SpecRace == InitRace /\ [][NextRace]_vars

(***************************************************************************)
(* SpecOverlap: get_project, update_project and delete_project calls on    *)
(* project 1 that overlap.  Each call is two steps, as in the handlers:    *)
(* first everything up to and including its store access (get_record, or   *)
(* update_record / delete_record with their commit), then its cache write. *)
(* The run starts from project 1 of user 1, cached or with its key expired.*)
(***************************************************************************)
InitOverlap ==
    /\ projects = SeedProject.projects
    /\ specifications = SeedProject.specifications
    /\ cache \in {SeedProject.cache, NoKeys}
    /\ cache_up = TRUE
    /\ items = <<>>
    /\ created = 0
    /\ calls = NoCalls
    /\ rate = NoCounters
    /\ users = <<>>
    /\ email_checked = TRUE
    /\ tokens = NoKeys
    /\ now = 0
    /\ issued = NoTokens

\* the calls between their store access and their cache write
InFlight == {caller \in DOMAIN calls : calls[caller].pc = "stored"}

\* get_project up to project_dict = self._schema.dump(project)
GetProjectReads ==
    \E caller \in DOMAIN calls, project_id \in DOMAIN projects,
       user_id \in Users :
        LET hit == redis_get(World, make_project_key(project_id))
            project == get_record(projects, project_id)
        IN  /\ calls[caller].pc = "idle"
            /\ calls' = [calls EXCEPT ![caller] =
                  IF Truthy(hit.value)
                  THEN [pc |-> "done",
                        status |-> IF "user_id" \notin DOMAIN hit.value
                                   THEN KeyError
                                   ELSE IF hit.value.user_id # Str(user_id)
                                   THEN PRJ002 ELSE OK]
                  ELSE IF project = NoSuchId
                  THEN [pc |-> "done", status |-> ProjectNotFound]
                  ELSE IF projects[project].user_id # user_id
                  THEN [pc |-> "done", status |-> PRJ002]
                  ELSE [pc |-> "stored", project_id |-> project_id,
                        value |-> project_dump(projects, project)]]
            /\ UNCHANGED <<worldVars, itemVars, rateVars, authVars>>

\* update_project up to project_dict = self._schema.dump(updated_project)
UpdateProjectStores ==
    \E caller \in DOMAIN calls, project_id \in DOMAIN projects,
       user_id \in Users, project_data \in [title : TitleInputs] :
        LET project == get_record(projects, project_id)
            rows == [projects EXCEPT ![project] =
                        setattrs(projects[project], project_data)]
        IN  /\ calls[caller].pc = "idle"
            /\ IF project = NoSuchId
               THEN /\ calls' = [calls EXCEPT ![caller] =
                          [pc |-> "done", status |-> ProjectNotFound]]
                    /\ UNCHANGED projects
               ELSE IF projects[project].user_id # user_id
               THEN /\ calls' = [calls EXCEPT ![caller] =
                          [pc |-> "done", status |-> PRJ002]]
                    /\ UNCHANGED projects
               ELSE IF ~validate_project_title(project_data.title)
               THEN /\ calls' = [calls EXCEPT ![caller] =
                          [pc |-> "done", status |-> PRJ001]]
                    /\ UNCHANGED projects
               ELSE /\ calls' = [calls EXCEPT ![caller] =
                          [pc |-> "stored", project_id |-> project_id,
                           value |-> project_dump(rows, project)]]
                    /\ projects' = rows
            /\ UNCHANGED <<specifications, cache, cache_up>>
            /\ UNCHANGED <<itemVars, rateVars, authVars>>

\* delete_project up to delete_record(project)
DeleteProjectStores ==
    \E caller \in DOMAIN calls, project_id \in DOMAIN projects,
       user_id \in Users :
        LET project == get_record(projects, project_id)
        IN  /\ calls[caller].pc = "idle"
            /\ IF project = NoSuchId
               THEN /\ calls' = [calls EXCEPT ![caller] =
                          [pc |-> "done", status |-> ProjectNotFound]]
                    /\ UNCHANGED projects
               ELSE IF projects[project].user_id # user_id
               THEN /\ calls' = [calls EXCEPT ![caller] =
                          [pc |-> "done", status |-> PRJ002]]
                    /\ UNCHANGED projects
               ELSE /\ calls' = [calls EXCEPT ![caller] =
                          [pc |-> "stored", project_id |-> project_id,
                           value |-> None]]
                    /\ projects' = delete_record(projects, project)
            /\ UNCHANGED <<specifications, cache, cache_up>>
            /\ UNCHANGED <<itemVars, rateVars, authVars>>

\* self._cache.set_project(str(project_id), ...): the last statement of
\* get_project, update_project and delete_project
ProjectCallCaches ==
    \E caller \in InFlight :
        LET call == calls[caller]
            cached == redis_set(World, make_project_key(call.project_id),
                                call.value)
        IN  /\ cache' = cached.w.cache
            /\ calls' = [calls EXCEPT ![caller] =
                            [pc |-> "done", status |-> OK]]
            /\ UNCHANGED <<projects, specifications, cache_up>>
            /\ UNCHANGED <<itemVars, rateVars, authVars>>

\* the caller has its answer and may call again
CallReturns ==
    \E caller \in DOMAIN calls :
        /\ calls[caller].pc = "done"
        /\ calls' = [calls EXCEPT ![caller] = [pc |-> "idle"]]
        /\ UNCHANGED <<worldVars, itemVars, rateVars, authVars>>

NextOverlap ==
    \/ GetProjectReads
    \/ UpdateProjectStores
    \/ DeleteProjectStores
    \/ ProjectCallCaches
    \/ CallReturns

SpecOverlap == InitOverlap /\ [][NextOverlap]_vars

(***************************************************************************)
(* SpecAuth: logins, refreshes and logouts, the passing of time and the    *)
(* flush of the Redis database.  The users table is the migration's (with  *)
(* ck_users_email_format) or the one init_db's create_all makes from the   *)
(* model (without it).                                                     *)
(***************************************************************************)
Auth ==
    [users |-> users, tokens |-> tokens, now |-> now,
     email_checked |-> email_checked]

\* tokens a client can present: the refresh tokens handed out, and the
\* access tokens handed out with them
TokenInputs ==
    DOMAIN issued
        \cup {generate_jwt_token("access", token.user_id, token.iat) :
                 token \in DOMAIN issued}

InitAuth ==
    /\ projects = EmptyWorld.projects
    /\ specifications = EmptyWorld.specifications
    /\ cache = EmptyWorld.cache
    /\ cache_up = TRUE
    /\ items = <<>>
    /\ created = 0
    /\ calls = NoCalls
    /\ rate = NoCounters
    /\ users = <<>>
    /\ email_checked \in BOOLEAN
    /\ tokens = NoKeys
    /\ now = 0
    /\ issued = NoTokens

Authenticate ==
    \E google_token \in GoogleInputs, iv \in IVs :
        LET out == authenticate_google_token(Auth, google_token, iv)
            token == out.value.refresh_token
        IN  /\ Len(out.a.users) <= MaxUsers
            /\ users' = out.a.users
            /\ tokens' = out.a.tokens
            /\ issued' =
                  IF out.status # OK THEN issued
                  ELSE [t \in DOMAIN issued \cup {token} |->
                           IF t \in DOMAIN issued THEN issued[t] ELSE FALSE]
            /\ UNCHANGED <<email_checked, now>>
            /\ UNCHANGED <<itemVars, worldVars, raceVars, rateVars>>

RefreshToken ==
    \E token \in TokenInputs :
        /\ tokens' = refresh_token(Auth, token).a.tokens
        /\ UNCHANGED <<users, email_checked, now, issued>>
        /\ UNCHANGED <<itemVars, worldVars, raceVars, rateVars>>

Logout ==
    \E token \in TokenInputs :
        LET out == logout(Auth, token)
        IN  /\ tokens' = out.a.tokens
            /\ issued' = IF out.status = OK
                         THEN [issued EXCEPT ![token] = TRUE] ELSE issued
            /\ UNCHANGED <<users, email_checked, now>>
            /\ UNCHANGED <<itemVars, worldVars, raceVars, rateVars>>

\* one second passes
AuthTick ==
    /\ now < MaxTime
    /\ now' = now + 1
    /\ tokens' = keys_after_a_second(tokens)
    /\ UNCHANGED <<users, email_checked, issued>>
    /\ UNCHANGED <<itemVars, worldVars, raceVars, rateVars>>

\* RedisCache.clear on the database the auth keys live in
AuthKeysFlushed ==
    /\ tokens' = NoKeys
    /\ UNCHANGED <<users, email_checked, now, issued>>
    /\ UNCHANGED <<itemVars, worldVars, raceVars, rateVars>>

NextAuth ==
    \/ Authenticate
    \/ RefreshToken
    \/ Logout
    \/ AuthTick
    \/ AuthKeysFlushed

SpecAuth == InitAuth /\ [][NextAuth]_vars

(***************************************************************************)
(* SpecRate: requests of the clients to one rate-limited endpoint, and the *)
(* passing of time.                                                        *)
(***************************************************************************)
InitRate ==
    /\ projects = EmptyWorld.projects
    /\ specifications = EmptyWorld.specifications
    /\ cache = EmptyWorld.cache
    /\ cache_up = TRUE
    /\ items = <<>>
    /\ created = 0
    /\ calls = NoCalls
    /\ rate = NoCounters
    /\ users = <<>>
    /\ email_checked = TRUE
    /\ tokens = NoKeys
    /\ now = 0
    /\ issued = NoTokens

\* a request passes the rate_limit decorator (admitted or RateLimitError)
Request ==
    \E client \in Clients :
        /\ rate[client].count < MaxCounted
        /\ rate' = [rate EXCEPT ![client] = check_rate_limit(rate[client]).counter]
        /\ UNCHANGED <<itemVars, worldVars, raceVars, authVars>>

\* one second passes
Tick ==
    /\ \A client \in Clients : rate[client].age < MaxAge
    /\ rate' = [client \in Clients |-> second_passes(rate[client])]
    /\ UNCHANGED <<itemVars, worldVars, raceVars, authVars>>

NextRate ==
    \/ Request
    \/ Tick

SpecRate == InitRate /\ [][NextRate]_vars

(***************************************************************************)
(* Vocabulary of the properties.                                           *)
(***************************************************************************)
\* ids of the active (not soft-deleted) rows of a specification
ActiveItems(rows, spec_id) ==
    {id \in DOMAIN rows : ~rows[id].is_deleted /\ rows[id].spec_id = spec_id}

\* specification ids a call may carry: the known ones and an unknown one
AnySpecIds == SpecIds \cup {3}

\* every reorder payload over the requests' ids
AllOrderUpdates == OrderUpdates(TargetIds)

\* the ids a payload names
NamedIds(order_updates) == {order_updates[k].id : k \in DOMAIN order_updates}

\* an entry names an item that is absent, soft-deleted or of another
\* specification
NamesNoItem(rows, spec_id, update) == update.id \notin ActiveItems(rows, spec_id)

\* an entry's order is outside 0..9
OrderOutOfRange(update) == update.order \notin 0..9

C3_CreateAtCapacityFails ==
    \A data \in [spec_id : AnySpecIds, content : ContentInputs,
                 order : OrderInputs] :
        Cardinality(ActiveItems(items, data.spec_id)) >= 10 =>
            LET out == create_bullet_item(items, data)
            IN  /\ out.status # OK
                /\ out.rows = items
                /\ out.value = <<>>
                /\ create_schema_load(data) = OK => out.status = ITEM001

\* a specification holds 10 active items and a well-formed create is refused
C3_Witness ==
    \E data \in CreateInputs :
        /\ Cardinality(ActiveItems(items, data.spec_id)) = 10
        /\ create_schema_load(data) = OK
        /\ create_bullet_item(items, data) = Raise(items, ITEM001)

(***************************************************************************)
(* C4: reorder_items with a payload in which two entries carry the same    *)
(* order value fails with InvalidOrder (ValidationError ITEM002) and       *)
(* writes nothing.  The handler has no such check: this statement of the   *)
(* claim is violated.                                                      *)
(***************************************************************************)
C4_DuplicateOrdersRejected ==
    \A spec_id \in SpecIds, order_updates \in AllOrderUpdates :
        (\E k, l \in DOMAIN order_updates :
            k # l /\ order_updates[k].order = order_updates[l].order) =>
            LET out == reorder_items(items, spec_id, order_updates)
            IN  out.status = ITEM002 /\ out.rows = items

(***************************************************************************)
(* C5: reorder_items is atomic per call: when the store fails on one of    *)
(* the call's updates (DatabaseError), none of the call's updates is       *)
(* persisted.  Each update is committed on its own: this statement of the  *)
(* claim is violated.                                                      *)
(***************************************************************************)
C5_ReorderAtomic ==
    \A spec_id \in SpecIds, order_updates \in AllOrderUpdates :
        LET out == reorder_items(items, spec_id, order_updates)
        IN  out.status = DatabaseError => out.rows = items

(***************************************************************************)
(* C6: reorder_items fails with NotFound when an entry names an item that  *)
(* does not exist, is soft-deleted or belongs to another specification,    *)
(* and with InvalidOrder (ITEM002) when an entry's order is outside 0..9   *)
(* (the error is that of the first offending entry); every entry is        *)
(* validated before the first write, so no row changes, also when earlier  *)
(* entries were valid.                                                     *)
(***************************************************************************)
C6_ReorderValidatesBeforeWriting ==
    \A spec_id \in AnySpecIds, order_updates \in AllOrderUpdates :
        LET out == reorder_items(items, spec_id, order_updates)
            bad == {k \in DOMAIN order_updates :
                       \/ NamesNoItem(items, spec_id, order_updates[k])
                       \/ OrderOutOfRange(order_updates[k])}
            first == CHOOSE k \in bad : \A l \in bad : k <= l
        IN  bad # {} =>
                /\ out.rows = items
                /\ out.value = <<>>
                /\ out.status =
                      IF NamesNoItem(items, spec_id, order_updates[first])
                      THEN NotFound ELSE ITEM002

\* a payload whose first entry is valid and could be written, and whose
\* second entry names a soft-deleted item, is refused with NotFound
C6_Witness ==
    \E spec_id \in SpecIds, order_updates \in AllOrderUpdates :
        /\ Len(order_updates) = 2
        /\ ~NamesNoItem(items, spec_id, order_updates[1])
        /\ ~OrderOutOfRange(order_updates[1])
        /\ update_record(items, order_updates[1].id,
                         [order |-> order_updates[1].order]).ok
        /\ items[order_updates[1].id].order # order_updates[1].order
        /\ order_updates[2].id \in DOMAIN items
        /\ items[order_updates[2].id].is_deleted
        /\ reorder_items(items, spec_id, order_updates) = Raise(items, NotFound)

(***************************************************************************)
(* C7 as claimed: reorder_items(spec_id, []) changes no item and returns   *)
(* the specification's current list of active items.  The handler returns  *)
(* the items it updated: this statement of the claim is violated.          *)
(***************************************************************************)
C7_EmptyReorderReturnsList ==
    \A spec_id \in SpecIds :
        LET out == reorder_items(items, spec_id, <<>>)
        IN  /\ out.status = OK
            /\ out.rows = items
            /\ out.value = list_specification_items(items, spec_id).value

(***************************************************************************)
(* C7 as amended: reorder_items(spec_id, []) succeeds, changes no item and *)
(* returns the empty list (the list of the items it updated), whatever     *)
(* the specification holds.                                                *)
(***************************************************************************)
C7_EmptyReorderReturnsNothing ==
    \A spec_id \in AnySpecIds :
        reorder_items(items, spec_id, <<>>) =
            [rows |-> items, status |-> OK, value |-> <<>>]

\* the specification holds active items, one of them created in this run,
\* and the empty reorder returns none of them
C7_Witness ==
    /\ created = 1
    /\ \E spec_id \in SpecIds :
          /\ Len(list_specification_items(items, spec_id).value) >= 2
          /\ reorder_items(items, spec_id, <<>>).value = <<>>

(***************************************************************************)
(* C8 as claimed: on items 1, 2, 3 with orders 0, 1, 2, reordering item 1  *)
(* to 2 and item 2 to 0 succeeds and leaves orders 2, 0, 2.  The store's   *)
(* unique constraint on (spec_id, order) turns the first update down: this *)
(* statement of the claim is violated.                                     *)
(***************************************************************************)
C8_Example == <<[id |-> 1, order |-> 2], [id |-> 2, order |-> 0]>>

C8_ExampleState ==
    /\ ActiveItems(items, 1) = {1, 2, 3}
    /\ \A id \in 1..3 : items[id].order = id - 1

C9_DeleteOnlyFlipsFlag ==
    \A id \in DOMAIN items :
        ~items[id].is_deleted =>
            LET out == delete_bullet_item(items, id)
                listed == list_specification_items(out.rows,
                                                   items[id].spec_id).value
            IN  /\ out.status = OK
                /\ DOMAIN out.rows = DOMAIN items
                /\ out.rows[id].is_deleted
                /\ out.rows[id].spec_id = items[id].spec_id
                /\ out.rows[id].content = items[id].content
                /\ out.rows[id].order = items[id].order
                /\ \A other \in DOMAIN items :
                      other # id => out.rows[other] = items[other]
                /\ \A k \in DOMAIN listed : listed[k].id # id

\* a row was soft-deleted: it is stored with its order, and is not listed
C9_Witness ==
    \E id \in DOMAIN items :
        /\ items[id].is_deleted
        /\ items[id].order \in 0..9
        /\ items[id].content # <<>>
        /\ \E other \in ActiveItems(items, items[id].spec_id) : other # id
        /\ LET listed == list_specification_items(items,
                                                  items[id].spec_id).value
           IN  \A k \in DOMAIN listed : listed[k].id # id

ValidationErrors == {ITEM002, SchemaError}

AnyIds == DOMAIN items \cup {NoSuchId, Len(items) + 1}

AnyCreateInputs ==
    [spec_id : AnySpecIds, content : ContentInputs, order : OrderInputs]

(***************************************************************************)
(* C11: every stored bullet item's order is in 0..9, and                   *)
(* create_bullet_item, update_bullet_item and reorder_items each turn down *)
(* an order outside 0..9 and persist nothing.  create and update fail with *)
(* a validation error; reorder_items fails with ValidationError ITEM002    *)
(* when every entry names an item of the specification, and otherwise with *)
(* the error of the payload's first bad entry (NotFound or ITEM002).       *)
(***************************************************************************)
C11_OrdersInRange ==
    /\ \A id \in DOMAIN items : items[id].order \in 0..9
    /\ \A data \in AnyCreateInputs :
          data.order \notin 0..9 =>
              LET out == create_bullet_item(items, data)
              IN  out.status \in ValidationErrors /\ out.rows = items
    /\ \A id \in AnyIds, data \in UpdateInputs :
          ("order" \in DOMAIN data /\ data.order \notin 0..9) =>
              LET out == update_bullet_item(items, id, data)
              IN  out.status \in ValidationErrors /\ out.rows = items
    /\ \A spec_id \in AnySpecIds, order_updates \in AllOrderUpdates :
          (\E k \in DOMAIN order_updates : OrderOutOfRange(order_updates[k])) =>
              LET out == reorder_items(items, spec_id, order_updates)
              IN  /\ out.rows = items
                  /\ out.status \in {ITEM002, NotFound}
                  /\ (\A k \in DOMAIN order_updates :
                          ~NamesNoItem(items, spec_id, order_updates[k]))
                        => out.status = ITEM002

\* a row was created and a row was moved to the last order, and orders 10
\* and -1 are turned down by create, update and reorder
C11_Witness ==
    /\ created = 1
    /\ \E id \in 1..2 : ~items[id].is_deleted /\ items[id].order = 9
    /\ create_bullet_item(items, [spec_id |-> 2, content |-> <<" ", "b">>,
                                  order |-> 10]).status = SchemaError
    /\ update_bullet_item(items, 1, [order |-> -1]).status = SchemaError
    /\ \E id \in ActiveItems(items, 1) :
          reorder_items(items, 1, <<[id |-> id, order |-> 10]>>)
              = Raise(items, ITEM002)

(***************************************************************************)
(* C12: the stored content of every bullet item is non-blank and carries   *)
(* no leading or trailing whitespace (create_bullet_item and               *)
(* update_bullet_item both persist the trimmed content).  update_record    *)
(* stores the content as sent: this statement of the claim is violated.    *)
(***************************************************************************)
C12_ContentTrimmed ==
    \A id \in DOMAIN items :
        /\ items[id].content # <<>>
        /\ items[id].content = strip(items[id].content)

(***************************************************************************)
(* C13: get_bullet_item, update_bullet_item and delete_bullet_item on an   *)
(* id that is absent or soft-deleted fail and leave the table unchanged;   *)
(* the error is NotFound (for update: whenever the patch itself passes the *)
(* schema, which is loaded first).  A second delete_bullet_item of the     *)
(* same item fails with NotFound.                                          *)
(***************************************************************************)
C13_MissingIdNotFound ==
    /\ \A id \in AnyIds :
          (id \notin DOMAIN items \/ items[id].is_deleted) =>
              /\ get_bullet_item(items, id) = Raise(items, NotFound)
              /\ delete_bullet_item(items, id) = Raise(items, NotFound)
              /\ \A data \in UpdateInputs :
                    LET out == update_bullet_item(items, id, data)
                    IN  /\ out.status # OK
                        /\ out.rows = items
                        /\ out.value = <<>>
                        /\ update_schema_load(data) = OK
                              => out.status = NotFound
    /\ \A id \in DOMAIN items :
          ~items[id].is_deleted =>
              LET once == delete_bullet_item(items, id)
              IN  /\ once.status = OK
                  /\ delete_bullet_item(once.rows, id)
                        = Raise(once.rows, NotFound)

\* an item was soft-deleted by delete_bullet_item; get, a well-formed update
\* and a second delete all fail on it with NotFound
C13_Witness ==
    \E id \in TargetIds :
        /\ id \in DOMAIN items
        /\ items[id].is_deleted
        /\ get_bullet_item(items, id).status = NotFound
        /\ delete_bullet_item(items, id).status = NotFound
        /\ \E data \in UpdateInputs :
              /\ update_schema_load(data) = OK
              /\ update_bullet_item(items, id, data) = Raise(items, NotFound)

(***************************************************************************)
(* C14: after delete_specification(S) has succeeded S has no active bullet *)
(* items: in the state a step that soft-deletes specification S leads to,  *)
(* list_specification_items(S) returns the empty list.                     *)
(* delete_specification flips the flag of the specification's row and      *)
(* nothing else, so its items stay active and listed: this statement of    *)
(* the claim is violated (and with it the claim's invariant, that no       *)
(* active bullet item refers to a soft-deleted specification).             *)
(***************************************************************************)
C14_DeleteSpecificationCascades ==
    [][\A spec_id \in DOMAIN specifications :
          (/\ ~specifications[spec_id].is_deleted
           /\ specifications'[spec_id].is_deleted) =>
              list_specification_items(items', spec_id).value = <<>>]_vars

(***************************************************************************)
(* C19: create_bullet_item for a spec_id that names no specification, or a *)
(* soft-deleted one, fails with ResourceNotFoundError and creates no       *)
(* bullet item (for every request that passes the schema).  The handler    *)
(* never looks the specification up: this statement of the claim is        *)
(* violated.                                                               *)
(***************************************************************************)
C19_CreateNeedsSpecification ==
    \A data \in AnyCreateInputs :
        (/\ create_schema_load(data) = OK
         /\ \/ data.spec_id \notin DOMAIN specifications
            \/ specifications[data.spec_id].is_deleted) =>
            LET out == create_bullet_item(items, data)
            IN  /\ out.status \in {NotFound, SpecNotFound}
                /\ out.rows = items

(***************************************************************************)
(* Vocabulary of the cache properties.                                     *)
(***************************************************************************)
\* the project is stored and not soft-deleted
ActiveProject(w, project_id) ==
    project_id \in DOMAIN w.projects /\ ~w.projects[project_id].is_deleted

\* the specification is stored and not soft-deleted
ActiveSpecification(w, spec_id) ==
    spec_id \in DOMAIN w.specifications
        /\ ~w.specifications[spec_id].is_deleted

(***************************************************************************)
(* C15: get_project(project_id, user_id) returns the project's data only   *)
(* when user_id is the project's owner, from the cache as from the store;  *)
(* for every other user of a stored, active project it fails with          *)
(* AuthorizationError (while the cache answers), after any sequence of     *)
(* project and specification calls.  list_project_specifications stores    *)
(* its listing under the project's own key, and get_project then fails     *)
(* with KeyError on that entry: this statement of the claim is violated.   *)
(***************************************************************************)
C15_GetProjectOwnerOnly ==
    \A project_id \in ProjectTargets, user_id \in Users :
        LET out == get_project(World, project_id, user_id)
        IN  /\ out.status = OK =>
                  /\ project_id \in DOMAIN projects
                  /\ projects[project_id].user_id = user_id
                  /\ out.value.user_id = Str(user_id)
            /\ (/\ cache_up
                /\ ActiveProject(World, project_id)
                /\ projects[project_id].user_id # user_id)
                  => out.status = PRJ002

(***************************************************************************)
(* C16: a cache failure never fails a request: while the Redis server does *)
(* not answer, get_project (for the owner) and get_specification return    *)
(* the record read from the store, and create, update and delete of a      *)
(* project or specification succeed with the store change committed.       *)
(* RedisCache turns every failure into DatabaseError and the services let  *)
(* it through: this statement of the claim is violated.                    *)
(***************************************************************************)
C16_CacheFailureNeverFails ==
    ~cache_up =>
        /\ \A project_id \in DOMAIN projects :
              ActiveProject(World, project_id) =>
                  LET owner == projects[project_id].user_id
                      got == get_project(World, project_id, owner)
                      updated == update_project(World, project_id, owner,
                                                [title |-> <<"b">>])
                      deleted == delete_project(World, project_id, owner)
                  IN  /\ got.status = OK
                      /\ got.value = project_dump(projects, project_id)
                      /\ updated.status = OK
                      /\ updated.w.projects[project_id].title = <<"b">>
                      /\ deleted.status = OK
                      /\ deleted.w.projects[project_id].is_deleted
        /\ \A spec_id \in DOMAIN specifications :
              ActiveSpecification(World, spec_id) =>
                  LET got == get_specification(World, spec_id)
                      updated == update_specification(World, spec_id,
                                                      [content |-> <<"s">>])
                      deleted == delete_specification(World, spec_id)
                  IN  /\ got.status = OK
                      /\ got.value = specification_dump(specifications, spec_id)
                      /\ updated.status = OK
                      /\ deleted.status = OK
                      /\ deleted.w.specifications[spec_id].is_deleted
        /\ \A user_id \in Users :
              LET made == create_project(World, user_id, [title |-> <<"a">>])
              IN  /\ made.status = OK
                  /\ Len(made.w.projects) = Len(projects) + 1
        /\ \A project_id \in DOMAIN projects :
              LET made == create_specification(World, project_id,
                                               [content |-> <<"s">>])
              IN  /\ made.status = OK
                  /\ Len(made.w.specifications) = Len(specifications) + 1

(***************************************************************************)
(* C17: a get_project call that runs after a create_project,               *)
(* update_project or delete_project call on the project has completed      *)
(* reflects it: while the cache answers, the owner of a stored, active     *)
(* project gets the record the store holds (the last one created or        *)
(* updated), never an older cached one, and for a soft-deleted project the *)
(* call fails with NotFound.  A specification listing cached under the     *)
(* project's key makes get_project fail, and a record left in the cache by *)
(* an update whose cache write failed is served in place of the stored     *)
(* one: this statement of the claim is violated.                           *)
(***************************************************************************)
C17_GetReflectsStore ==
    cache_up =>
        \A project_id \in DOMAIN projects :
            LET owner == projects[project_id].user_id
                got == get_project(World, project_id, owner)
            IN  IF ActiveProject(World, project_id)
                THEN /\ got.status = OK
                     /\ got.value = project_dump(projects, project_id)
                ELSE got.status = ProjectNotFound

(***************************************************************************)
(* C18: overlapping create_bullet_item calls on one specification          *)
(***************************************************************************)
\* the calls that passed the schema and read their count
Counted == {caller \in DOMAIN calls : "count" \in DOMAIN calls[caller]}

\* both calls ran to their end, and each read 9 items and passed the
\* capacity check
BothRead9 ==
    /\ Counted = DOMAIN calls
    /\ \A caller \in DOMAIN calls :
          /\ calls[caller].pc = "done"
          /\ calls[caller].count = MAX_BULLET_ITEMS - 1
          /\ calls[caller].status # ITEM001

Persisted == {caller \in Counted :
                 calls[caller].pc = "done" /\ calls[caller].status = OK}

C20_ExpiryOnlyWhenNew ==
    \A client \in Clients :
        rate[client].count > 0 => rate[client].age < RateWindow

(***************************************************************************)
(* C27: a reorder that names every active item with distinct orders        *)
(***************************************************************************)
\* the payload names every active item of the specification once and gives
\* them pairwise-distinct orders in 0..9
SelfConsistent(rows, spec_id, order_updates) ==
    /\ NamedIds(order_updates) = ActiveItems(rows, spec_id)
    /\ \A j, k \in DOMAIN order_updates :
          j # k => /\ order_updates[j].id # order_updates[k].id
                   /\ order_updates[j].order # order_updates[k].order
    /\ \A k \in DOMAIN order_updates : order_updates[k].order \in 0..9

ActiveOrders(rows, spec_id) ==
    {rows[id].order : id \in ActiveItems(rows, spec_id)}

C22_ProjectKeyHoldsProject ==
    \A project_id \in DOMAIN projects :
        LET key == make_project_key(project_id)
        IN  (key \in DOMAIN cache /\ Truthy(json_loads(cache[key]))) =>
                LET value == json_loads(cache[key])
                IN  /\ DOMAIN value = DOMAIN project_dump(projects, project_id)
                    /\ value.id = Str(project_id)
                    /\ value.user_id = Str(projects[project_id].user_id)

(***************************************************************************)
(* C23: what delete_specification removes from the cache                   *)
(***************************************************************************)
\* C23: delete_specification(s) invalidates only s's cache entry: every
\* other key of the cache holds after the call what it held before it.
C23_DeleteInvalidatesOneKey ==
    \A spec_id \in SpecificationTargets :
        LET out == delete_specification(World, spec_id)
        IN  out.status = OK =>
                \A key \in DOMAIN cache \ {make_spec_key(spec_id)} :
                    /\ key \in DOMAIN out.w.cache
                    /\ out.w.cache[key] = cache[key]

(***************************************************************************)
(* C26: which requests the rate limiter admits                             *)
(***************************************************************************)
\* C26: for each key, between two resets of its counter check_rate_limit
\* answers True for exactly the first max_requests calls (the call is
\* admitted iff fewer than max_requests calls were counted since the reset)
\* and False for every later one, and a call on one key leaves the counter
\* of every other key as it was.
C26_AdmitsFirstRequests ==
    [][\A client \in Clients :
          rate'[client].count = rate[client].count + 1 =>
              /\ check_rate_limit(rate[client]).allowed
                    <=> rate[client].count < RateLimit
              /\ rate'[client].count = 1 <=> rate[client] = NoCounter
              /\ \A other \in Clients \ {client} : rate'[other] = rate[other]
      ]_vars

\* one client has been refused while another is still within its limit
C26_Witness ==
    \E client, other \in Clients :
        /\ rate[client].count > RateLimit
        /\ rate[other].count \in 1..RateLimit

(***************************************************************************)
(* C21: the project cache when calls on one project overlap                *)
(***************************************************************************)
\* C21: whenever no project operation is in flight, the value cached under a
\* project's key is absent or null, or it is the store's current record of
\* that project and the project is active.
C21_CacheMatchesStoreAtRest ==
    InFlight = {} =>
        \A project_id \in DOMAIN projects :
            LET key == make_project_key(project_id)
            IN  (key \in DOMAIN cache /\ Truthy(json_loads(cache[key]))) =>
                    /\ ActiveProject(World, project_id)
                    /\ json_loads(cache[key])
                           = project_dump(projects, project_id)

(***************************************************************************)
(* C24: a refresh token after its logout                                   *)
(***************************************************************************)
\* the refresh tokens whose logout has succeeded
LoggedOut == {token \in DOMAIN issued : issued[token]}

\* C24: once logout(t) has succeeded, every later refresh_token(t) fails
\* with AuthenticationError and issues no access token, whatever happened in
\* between (logins, flushes of the cache, expiry of keys).
C24_LoggedOutTokenRefused ==
    \A token \in LoggedOut :
        LET out == refresh_token(Auth, token)
        IN  /\ out.status = AUTH001
            /\ out.value = None

\* the part of C24 that holds: after a successful logout(t), no later
\* refresh_token(t) succeeds or returns an access token
LoggedOutTokenIssuesNothing ==
    \A token \in LoggedOut :
        LET out == refresh_token(Auth, token)
        IN  out.status # OK /\ out.value = None

(***************************************************************************)
(* C25: one user per e-mail address                                        *)
(***************************************************************************)
\* the active users whose stored e-mail decrypts to the address
UsersOf(email) ==
    {id \in DOMAIN users :
        ~users[id].is_deleted /\ decrypt_sensitive_data(users[id].email) = email}

\* C25: authenticate_google_token is get-or-create per e-mail: at most one
\* active user exists per e-mail address, and authenticating with an address
\* that already has an active user returns that user's id and adds no row.
C25_OneUserPerEmail ==
    \A email \in Emails :
        /\ Cardinality(UsersOf(email)) <= 1
        /\ UsersOf(email) # {} =>
              \A iv \in IVs :
                  LET out == authenticate_google_token(
                                 Auth, [verified |-> TRUE, email |-> email], iv)
                  IN  /\ out.status = OK
                      /\ out.value.user \in UsersOf(email)
                      /\ out.a.users = users

(***************************************************************************)
(* C30: who reaches the specifications and bullet items of a project       *)
(***************************************************************************)
\* the user who owns the project of a stored specification
OwnerOf(spec_id) == projects[specifications[spec_id].project_id].user_id

\* C30: specification and bullet-item operations take effect only for the
\* authenticated user who owns the enclosing project: for any other user a
\* get returns nothing and an update or delete changes nothing.
C30_OnlyOwnerActs ==
    \A user_id \in Users :
        /\ \A spec_id \in DOMAIN specifications :
              user_id # OwnerOf(spec_id) =>
                  api_get_specification(World, user_id, spec_id).status # OK
        /\ \A item_id \in DOMAIN items :
              user_id # OwnerOf(items[item_id].spec_id) =>
                  /\ api_get_bullet_item(items, user_id, item_id).status # OK
                  /\ api_delete_bullet_item(items, user_id, item_id).rows
                         = items
                  /\ \A data \in UpdateInputs :
                        api_update_bullet_item(items, user_id, item_id,
                                               data).rows = items

====
